---- MODULE Spec2Model ----
(***************************************************************************)
(* Weekly dinner rotation (dinner-picker).  One process run is main():     *)
(* LoadDinners, LoadState, CheckNewWeek, SelectWeeklyDinners, SaveState,   *)
(* PrintWeeklyMenu.  Runs follow each other, sharing dinner_state.json.    *)
(* Time is counted in whole days; day 0 is a Sunday.                       *)
(***************************************************************************)
EXTENDS Integers, Sequences, FiniteSets, TLC

VARIABLES
    now,          \* time.Now(), in days
    dinnersFile,  \* content of dinners.json: a catalog, or NoCatalog
    file,         \* content of dinner_state.json: NoFile, Corrupt or a JSON record
    pc,           \* position of the current run in main()
    dinners,      \* main's dinners (*DinnerData), Nil before LoadDinners
    state,        \* main's state (*WeekState), Nil before LoadState
    selections,   \* SelectWeeklyDinners' selections map: day -> Dinner
    categories,   \* SelectWeeklyDinners' categories slice
    k,            \* number of days already assigned in this run (0..5)
    err,          \* why the run stopped, "" while it has not
    picks,        \* history: number of dinners selected so far, by all runs
    fileAtStart,  \* history: the persisted record when the current run started
    loaded,       \* history: the state LoadState returned to the current run
    atSelect,     \* history: the state SelectWeeklyDinners was called with
    saved,        \* history: the state most recently written by SaveState
    picked,       \* history: week number -> names selected by successful runs of that week
    call          \* the last direct call of a WeekState method: [op, arg, ret], Nil if none

env == <<now, dinnersFile>>
locals == <<dinners, state, selections, categories, k, err>>
hist == <<picks, fileAtStart, loaded, atSelect, saved, picked>>
vars == <<env, file, pc, locals, hist, call>>

----------------------------------------------------------------------------
(* Bounds of the model *)

\* number of dinners selected in all, by all runs
MaxPicks == 10
\* the days on which the program is run: a Wednesday, the Saturday and the Sunday
\* after it, and the Monday 8 days after that Sunday
RunDays == {3, 6, 7, 15}
\* number of calendar weeks, from day 0 on, whose every day is a day to run on
MaxWeeks == 3
\* longest currentWeek built by direct calls of AddSelection
MaxLen == 3

DaysPerWeek == 7

\* a nil pointer
Nil == [nil |-> TRUE]
\* dinner_state.json does not exist / exists and does not parse / holds a record
NoFile == [kind |-> "none"]
Corrupt == [kind |-> "corrupt"]
Json(j) == [kind |-> "json", text |-> j]
\* dinners.json is missing or malformed / holds a catalog
NoCatalog == [kind |-> "none"]
CatalogFile(c) == [kind |-> "json", Dinners |-> c]

----------------------------------------------------------------------------
(* Data *)

Dinner(name, category) ==
    [Name |-> name, Category |-> category, Ingredients |-> <<"salt", name>>]

FixedCategory == "soup"
ShuffledCategories == <<"noodles-rice", "pasta", "bread-y", "Salad">>
Days == <<"Sunday", "Monday", "Tuesday", "Wednesday", "Thursday">>

\* two dinners in each configured category
CatalogTwoEach ==
    [c \in {"soup", "noodles-rice", "pasta", "bread-y", "Salad"} |->
        <<Dinner(c \o "-1", c), Dinner(c \o "-2", c)>>]

\* soup has exactly one dinner; "minestrone" is listed under two categories
CatalogOneSoup ==
    ("soup" :> <<Dinner("minestrone", "soup")>>) @@
    ("noodles-rice" :> <<Dinner("ramen", "noodles-rice")>>) @@
    ("pasta" :> <<Dinner("minestrone", "pasta"), Dinner("lasagne", "pasta")>>) @@
    ("bread-y" :> <<Dinner("pizza", "bread-y")>>) @@
    ("Salad" :> <<Dinner("caesar", "Salad")>>)

\* "pasta" is absent and "bread-y" is empty
CatalogGaps ==
    ("soup" :> <<Dinner("pho", "soup"), Dinner("borscht", "soup")>>) @@
    ("noodles-rice" :> <<Dinner("ramen", "noodles-rice")>>) @@
    ("bread-y" :> <<>>) @@
    ("Salad" :> <<Dinner("caesar", "Salad")>>)

\* "soup" is absent
CatalogNoSoup ==
    ("pasta" :> <<Dinner("lasagne", "pasta")>>)

Catalogs == {CatalogTwoEach, CatalogOneSoup, CatalogGaps, CatalogNoSoup}

Range(s) == {s[i] : i \in DOMAIN s}
Names(s) == {s[i].Name : i \in DOMAIN s}

----------------------------------------------------------------------------
(* JSON encoding of the state record *)

RECURSIVE FormatInt(_)
FormatInt(n) == IF n < 10 THEN <<n>> ELSE Append(FormatInt(n \div 10), n % 10)

RECURSIVE ParseInt(_)
ParseInt(s) ==
    IF Len(s) = 0 THEN 0
    ELSE 10 * ParseInt(SubSeq(s, 1, Len(s) - 1)) + s[Len(s)]

MarshalDinner(d) ==
    [name |-> d.Name, category |-> d.Category, ingredients |-> d.Ingredients]

UnmarshalDinner(j) ==
    [Name |-> j.name, Category |-> j.category, Ingredients |-> j.ingredients]

\* variant: both lists written from CurrentWeek
Marshal_PreviousFromCurrent(s) ==
    [week_start |-> FormatInt(s.WeekStart),
     current_week |-> [i \in DOMAIN s.CurrentWeek |-> MarshalDinner(s.CurrentWeek[i])],
     previous_week |-> [i \in DOMAIN s.CurrentWeek |-> MarshalDinner(s.CurrentWeek[i])]]

Marshal(s) ==
    [week_start |-> FormatInt(s.WeekStart),
     current_week |-> [i \in DOMAIN s.CurrentWeek |-> MarshalDinner(s.CurrentWeek[i])],
     previous_week |-> [i \in DOMAIN s.PreviousWeek |-> MarshalDinner(s.PreviousWeek[i])]]

Unmarshal(j) ==
    [WeekStart |-> ParseInt(j.week_start),
     CurrentWeek |-> [i \in DOMAIN j.current_week |-> UnmarshalDinner(j.current_week[i])],
     PreviousWeek |-> [i \in DOMAIN j.previous_week |-> UnmarshalDinner(j.previous_week[i])]]

----------------------------------------------------------------------------
(* WeekState methods *)

Weekday(t) == t % DaysPerWeek

\* variant: the days since Sunday are not subtracted
GetCurrentWeekStart_Today(t) == t

GetCurrentWeekStart(t) == t - Weekday(t)

\* variant: WeekStart is stamped with the current day
NewState_Today(t) ==
    [WeekStart |-> t, CurrentWeek |-> <<>>, PreviousWeek |-> <<>>]

NewState(t) ==
    [WeekStart |-> GetCurrentWeekStart(t), CurrentWeek |-> <<>>, PreviousWeek |-> <<>>]

\* variant: CurrentWeek is cleared before it is copied to PreviousWeek
CheckNewWeekOf_DropsPrevious(s, t) ==
    IF s.WeekStart # GetCurrentWeekStart(t)
    THEN [WeekStart |-> GetCurrentWeekStart(t),
          CurrentWeek |-> <<>>,
          PreviousWeek |-> <<>>]
    ELSE s

\* variant: CurrentWeek is not cleared
CheckNewWeekOf_KeepsCurrent(s, t) ==
    IF s.WeekStart # GetCurrentWeekStart(t)
    THEN [WeekStart |-> GetCurrentWeekStart(t),
          CurrentWeek |-> s.CurrentWeek,
          PreviousWeek |-> s.CurrentWeek]
    ELSE s

\* variant: WeekStart is not updated
CheckNewWeekOf_StaleWeekStart(s, t) ==
    IF s.WeekStart # GetCurrentWeekStart(t)
    THEN [WeekStart |-> s.WeekStart,
          CurrentWeek |-> <<>>,
          PreviousWeek |-> s.CurrentWeek]
    ELSE s

CheckNewWeekOf(s, t) ==
    IF s.WeekStart # GetCurrentWeekStart(t)
    THEN [WeekStart |-> GetCurrentWeekStart(t),
          CurrentWeek |-> <<>>,
          PreviousWeek |-> s.CurrentWeek]
    ELSE s

\* variant: only CurrentWeek is searched
IsAlreadySelected_CurrentOnly(s, dinnerName) ==
    \E i \in DOMAIN s.CurrentWeek : s.CurrentWeek[i].Name = dinnerName

\* variant: only PreviousWeek is searched
IsAlreadySelected_PreviousOnly(s, dinnerName) ==
    \E i \in DOMAIN s.PreviousWeek : s.PreviousWeek[i].Name = dinnerName

\* variant: the loop over PreviousWeek stops one element short
IsAlreadySelected_StopsShort(s, dinnerName) ==
    \/ \E i \in DOMAIN s.CurrentWeek : s.CurrentWeek[i].Name = dinnerName
    \/ \E i \in 1 .. Len(s.PreviousWeek) - 1 : s.PreviousWeek[i].Name = dinnerName

IsAlreadySelected(s, dinnerName) ==
    \/ \E i \in DOMAIN s.CurrentWeek : s.CurrentWeek[i].Name = dinnerName
    \/ \E i \in DOMAIN s.PreviousWeek : s.PreviousWeek[i].Name = dinnerName

\* variant: the dinner is put in front of CurrentWeek
AddSelection_Prepend(s, dinner) ==
    [s EXCEPT !.CurrentWeek = <<dinner>> \o s.CurrentWeek]

\* variant: a dinner whose name is already in CurrentWeek is not appended
AddSelection_Unique(s, dinner) ==
    IF \E i \in DOMAIN s.CurrentWeek : s.CurrentWeek[i].Name = dinner.Name
    THEN s
    ELSE [s EXCEPT !.CurrentWeek = Append(s.CurrentWeek, dinner)]

AddSelection(s, dinner) ==
    [s EXCEPT !.CurrentWeek = Append(s.CurrentWeek, dinner)]

\* dinners.Dinners[categoryName]: a missing key reads as the empty slice
DinnerSlice(data, categoryName) ==
    IF categoryName \in DOMAIN data.Dinners THEN data.Dinners[categoryName] ELSE <<>>

\* the category the next pick draws from
CategoryOf(i, cats) == IF i = 0 THEN FixedCategory ELSE cats[i]

\* variant: the swap overwrites position i and leaves position j
Swap_Overwrite(s, i, j) == [s EXCEPT ![i] = s[j]]

Swap(s, i, j) == [s EXCEPT ![i] = s[j], ![j] = s[i]]

\* rand.Shuffle(4, swap): for i = 3, 2, 1 swap positions i and j, 0 <= j <= i
\* (positions counted from 0; the sequence is indexed from 1)
ShuffleWith(s, j3, j2, j1) ==
    Swap(Swap(Swap(s, 4, j3 + 1), 3, j2 + 1), 2, j1 + 1)

\* PickRandomDinner: panics on an empty slice, else returns dinnerSlice[rand.Intn(len)]
Panic == [panic |-> TRUE]
Returned(d) == [panic |-> FALSE, dinner |-> d]
\* variant: an empty slice yields the zero Dinner instead of a panic
PickRandomDinner_ZeroValue(data, categoryName) ==
    LET dinnerSlice == DinnerSlice(data, categoryName) IN
    IF Len(dinnerSlice) = 0
    THEN {Returned([Name |-> "", Category |-> "", Ingredients |-> <<>>])}
    ELSE {Returned(dinnerSlice[i]) : i \in 1 .. Len(dinnerSlice)}

\* variant: rand.Intn(len - 1), the last dinner of a category is never drawn
PickRandomDinner_NeverLast(data, categoryName) ==
    LET dinnerSlice == DinnerSlice(data, categoryName) IN
    IF Len(dinnerSlice) = 0
    THEN {Panic}
    ELSE {Returned(dinnerSlice[i]) : i \in 1 .. Len(dinnerSlice) - 1}

PickRandomDinner(data, categoryName) ==
    LET dinnerSlice == DinnerSlice(data, categoryName) IN
    IF Len(dinnerSlice) = 0
    THEN {Panic}
    ELSE {Returned(dinnerSlice[i]) : i \in 1 .. Len(dinnerSlice)}

\* the calendar week a day lies in (weeks run from Sunday to Saturday)
WeekOf(t) == t \div DaysPerWeek
Instants == 0 .. (MaxWeeks * DaysPerWeek - 1)
Weeks == {WeekOf(d) : d \in RunDays \cup Instants}
PickedIn(w) == IF w \in DOMAIN picked THEN picked[w] ELSE {}

EmptyMap == [d \in {} |-> Nil]

----------------------------------------------------------------------------
(* The program *)

\* no record, no run in progress
Fresh ==
    /\ file = NoFile
    /\ pc = "idle"
    /\ dinners = Nil
    /\ state = Nil
    /\ selections = EmptyMap
    /\ categories = <<>>
    /\ k = 0
    /\ err = ""
    /\ picks = 0
    /\ fileAtStart = NoFile
    /\ loaded = Nil
    /\ atSelect = Nil
    /\ saved = Nil
    /\ picked = [w \in Weeks |-> {}]
    /\ call = Nil

Init ==
    /\ now \in RunDays
    /\ dinnersFile \in {CatalogFile(c) : c \in Catalogs} \cup {NoCatalog}
    /\ Fresh

\* time passes between two runs
Tick ==
    /\ pc = "idle"
    /\ \E d \in RunDays :
        /\ d > now
        /\ now' = d
    /\ UNCHANGED <<dinnersFile, file, pc, locals, hist, call>>

\* main: dinners, err := LoadDinners("dinners.json")
LoadDinners ==
    /\ pc = "idle"
    /\ fileAtStart' = file
    /\ IF dinnersFile = NoCatalog
       THEN /\ pc' = "failed"
            /\ err' = "CatalogLoadError"
            /\ UNCHANGED dinners
       ELSE /\ pc' = "LoadState"
            /\ dinners' = [Dinners |-> dinnersFile.Dinners]
            /\ UNCHANGED err
    /\ UNCHANGED <<env, call, file, state, selections, categories, k,
                   picks, loaded, atSelect, saved, picked>>

\* variant: a record that does not parse is replaced by a fresh state
LoadState_Recovers ==
    /\ pc = "LoadState"
    /\ IF file = NoFile \/ file = Corrupt
       THEN /\ state' = NewState(now)
            /\ loaded' = state'
            /\ pc' = "CheckNewWeek"
            /\ UNCHANGED err
       ELSE /\ state' = Unmarshal(file.text)
            /\ loaded' = state'
            /\ pc' = "CheckNewWeek"
            /\ UNCHANGED err
    /\ UNCHANGED <<env, call, file, dinners, selections, categories, k,
                   picks, fileAtStart, atSelect, saved, picked>>

\* main: state, err := LoadState()
LoadState ==
    /\ pc = "LoadState"
    /\ IF file = NoFile
       THEN /\ state' = NewState(now)
            /\ loaded' = state'
            /\ pc' = "CheckNewWeek"
            /\ UNCHANGED err
       ELSE IF file = Corrupt
       THEN /\ pc' = "failed"
            /\ err' = "StateLoadError"
            /\ UNCHANGED <<state, loaded>>
       ELSE /\ state' = Unmarshal(file.text)
            /\ loaded' = state'
            /\ pc' = "CheckNewWeek"
            /\ UNCHANGED err
    /\ UNCHANGED <<env, call, file, dinners, selections, categories, k,
                   picks, fileAtStart, atSelect, saved, picked>>

\* main: state.CheckNewWeek(), then the call of SelectWeeklyDinners
CheckNewWeek ==
    /\ pc = "CheckNewWeek"
    /\ state' = CheckNewWeekOf(state, now)
    /\ atSelect' = state'
    /\ pc' = "pick"
    /\ k' = 0
    /\ selections' = EmptyMap
    /\ categories' = ShuffledCategories
    /\ UNCHANGED <<env, call, file, dinners, err, picks, fileAtStart, loaded, saved, picked>>

\* one iteration of pickDinnerFromCategory's loop for the day after the k assigned
\* ones: PickRandomDinner panics on an empty category; a dinner that is not already
\* selected is returned, recorded in selections and added to the state; any other
\* is drawn again
PickDinner ==
    /\ pc = "pick"
    /\ picks < MaxPicks
    /\ \E r \in PickRandomDinner(dinners, CategoryOf(k, categories)) :
        IF r.panic
        THEN /\ pc' = "failed"
             /\ err' = "EmptyCategoryError"
             /\ UNCHANGED <<state, selections, k, picks>>
        ELSE LET randomDinner == r.dinner IN
             IF IsAlreadySelected(state, randomDinner.Name)
             THEN UNCHANGED <<pc, state, selections, k, err, picks>>
             ELSE /\ selections' = selections @@ (Days[k + 1] :> randomDinner)
                  /\ state' = AddSelection(state, randomDinner)
                  /\ k' = k + 1
                  /\ picks' = picks + 1
                  /\ pc' = IF k = 0 THEN "shuffle"
                           ELSE IF k + 1 = Len(Days) THEN "SaveState"
                           ELSE "pick"
                  /\ UNCHANGED err
    /\ UNCHANGED <<env, call, file, dinners, categories,
                   fileAtStart, loaded, atSelect, saved, picked>>

\* variant: the state is written to the file right after Sunday's selection
Shuffle_Saving ==
    /\ pc = "shuffle"
    /\ picks < MaxPicks
    /\ \E j3 \in 0 .. 3, j2 \in 0 .. 2, j1 \in 0 .. 1 :
        categories' = ShuffleWith(categories, j3, j2, j1)
    /\ pc' = "pick"
    /\ file' = Json(Marshal(state))
    /\ UNCHANGED <<env, call, dinners, state, selections, k, err, hist>>

\* SelectWeeklyDinners: rand.Shuffle of the categories of Monday to Thursday
Shuffle ==
    /\ pc = "shuffle"
    /\ picks < MaxPicks
    /\ \E j3 \in 0 .. 3, j2 \in 0 .. 2, j1 \in 0 .. 1 :
        categories' = ShuffleWith(categories, j3, j2, j1)
    /\ pc' = "pick"
    /\ UNCHANGED <<env, call, file, dinners, state, selections, k, err, hist>>

\* main: err = state.SaveState(); the write succeeds
SaveState ==
    /\ pc = "SaveState"
    /\ file' = Json(Marshal(state))
    /\ saved' = state
    /\ picked' = [picked EXCEPT ![WeekOf(now)] = @ \cup Names(selections)]
    /\ pc' = "PrintWeeklyMenu"
    /\ UNCHANGED <<env, call, locals, picks, fileAtStart, loaded, atSelect>>

\* variant: the error of SaveState is ignored
SaveStateFails_Ignored ==
    /\ pc = "SaveState"
    /\ file' \in {file, Corrupt}
    /\ pc' = "PrintWeeklyMenu"
    /\ UNCHANGED <<env, call, dinners, state, selections, categories, k, err, hist>>

\* main: err = state.SaveState(); os.WriteFile fails, before or after truncating
SaveStateFails ==
    /\ pc = "SaveState"
    /\ file' \in {file, Corrupt}
    /\ pc' = "failed"
    /\ err' = "StateSaveError"
    /\ UNCHANGED <<env, call, dinners, state, selections, categories, k, hist>>

\* main: PrintWeeklyMenu(selections)
PrintWeeklyMenu ==
    /\ pc = "PrintWeeklyMenu"
    /\ pc' = "done"
    /\ UNCHANGED <<env, call, file, locals, hist>>

\* the process ends; its memory is gone
Exit ==
    /\ pc \in {"done", "failed"}
    /\ pc' = "idle"
    /\ dinners' = Nil
    /\ state' = Nil
    /\ selections' = EmptyMap
    /\ categories' = <<>>
    /\ k' = 0
    /\ err' = ""
    /\ fileAtStart' = file
    /\ loaded' = Nil
    /\ atSelect' = Nil
    /\ UNCHANGED <<env, call, file, picks, saved, picked>>

Next ==
    \/ Tick
    \/ LoadDinners
    \/ LoadState
    \/ CheckNewWeek
    \/ PickDinner
    \/ Shuffle
    \/ SaveState
    \/ SaveStateFails
    \/ PrintWeeklyMenu
    \/ Exit

Spec == Init /\ [][Next]_vars

----------------------------------------------------------------------------
(* The program run on any day of MaxWeeks weeks, with the catalogs that allow *)
(* at most one successful run                                                 *)

CalendarInit ==
    /\ now \in Instants
    /\ dinnersFile \in {CatalogFile(c) : c \in Catalogs \ {CatalogTwoEach}} \cup {NoCatalog}
    /\ Fresh

\* a day passes between two runs
NextDay ==
    /\ pc = "idle"
    /\ now + 1 \in Instants
    /\ now' = now + 1
    /\ UNCHANGED <<dinnersFile, file, pc, locals, hist, call>>

CalendarNext ==
    \/ NextDay
    \/ LoadDinners
    \/ LoadState
    \/ CheckNewWeek
    \/ PickDinner
    \/ Shuffle
    \/ SaveState
    \/ SaveStateFails
    \/ PrintWeeklyMenu
    \/ Exit

CalendarSpec == CalendarInit /\ [][CalendarNext]_vars

----------------------------------------------------------------------------
(* The program with two dinners in every category, run from the second week   *)
(* on and only when no run of the calendar week has saved a record; a run     *)
(* that has started goes on, and a dinner that can be drawn is drawn in the   *)
(* end                                                                        *)

LiveInit ==
    /\ now \in {d \in RunDays : d >= DaysPerWeek}
    /\ dinnersFile = CatalogFile(CatalogTwoEach)
    /\ Fresh

\* a run starts: none has saved in this week, and its five picks are within MaxPicks
StartRun ==
    /\ PickedIn(WeekOf(now)) = {}
    /\ picks + Len(Days) <= MaxPicks
    /\ LoadDinners

LiveNext ==
    \/ Tick
    \/ StartRun
    \/ LoadState
    \/ CheckNewWeek
    \/ PickDinner
    \/ Shuffle
    \/ SaveState
    \/ SaveStateFails
    \/ PrintWeeklyMenu
    \/ Exit

LiveSpec ==
    /\ LiveInit
    /\ [][LiveNext]_vars
    /\ WF_vars(LoadState)
    /\ WF_vars(CheckNewWeek)
    /\ WF_vars(PickDinner)
    /\ WF_vars(Shuffle)
    /\ WF_vars(SaveState \/ SaveStateFails)
    /\ WF_vars(PrintWeeklyMenu)
    /\ WF_vars(Exit)

----------------------------------------------------------------------------
(* The WeekState methods called directly, on any state and with any dinner *)

\* every dinner of the catalog
AllDinners(catalog) == UNION {Range(catalog[c]) : c \in DOMAIN catalog}

\* the PreviousWeek of the states the methods are called on
PreviousWeeks ==
    {<<>>,
     <<Dinner("ramen", "noodles-rice")>>,
     <<Dinner("minestrone", "soup"), Dinner("caesar", "Salad")>>}

\* the names asked for: the catalog's, the empty one and one in another case
AskedNames(catalog) == {d.Name : d \in AllDinners(catalog)} \cup {"", "Ramen"}

MethodInit ==
    /\ now \in RunDays
    /\ dinnersFile = CatalogFile(CatalogOneSoup)
    /\ Fresh

\* state := &WeekState{...}
CallNew ==
    /\ state = Nil
    /\ \E p \in PreviousWeeks :
        state' = [NewState(now) EXCEPT !.PreviousWeek = p]
    /\ UNCHANGED <<env, call, file, pc, dinners, selections, categories, k, err, hist>>

\* state.AddSelection(dinner)
CallAddSelection ==
    /\ state # Nil
    /\ Len(state.CurrentWeek) < MaxLen
    /\ \E dinner \in AllDinners(dinnersFile.Dinners) :
        /\ state' = AddSelection(state, dinner)
        /\ call' = [op |-> "AddSelection", arg |-> dinner, ret |-> Nil]
    /\ UNCHANGED <<env, file, pc, dinners, selections, categories, k, err, hist>>

\* state.IsAlreadySelected(dinnerName)
CallIsAlreadySelected ==
    /\ state # Nil
    /\ \E dinnerName \in AskedNames(dinnersFile.Dinners) :
        call' = [op |-> "IsAlreadySelected", arg |-> dinnerName,
                 ret |-> IsAlreadySelected(state, dinnerName)]
    /\ UNCHANGED <<env, file, pc, locals, hist>>

MethodNext ==
    \/ CallNew
    \/ CallAddSelection
    \/ CallIsAlreadySelected

MethodSpec == MethodInit /\ [][MethodNext]_vars

----------------------------------------------------------------------------
(* Properties *)

AllAssigned == DOMAIN selections = Range(Days)

NoRepeat(currentNames, previousNames) ==
    /\ \A i, j \in DOMAIN currentNames :
           i # j => currentNames[i] # currentNames[j]
    /\ Range(currentNames) \cap Range(previousNames) = {}

\* the most recent Sunday, at or before day t
IsWeekBoundary(b, t) == b % DaysPerWeek = 0 /\ b <= t /\ t < b + DaysPerWeek

\* CheckNewWeek has run in this run and no dinner has been added since
Checked == loaded # Nil /\ pc # "CheckNewWeek" /\ k = 0

\* C1: the five dinners a returning SelectWeeklyDinners yields have pairwise
\* different names, and none of the names was in previousWeek or currentWeek when
\* SelectWeeklyDinners was called.
C1_NoRepeatInRun ==
    AllAssigned =>
        /\ \A d1, d2 \in DOMAIN selections :
               d1 # d2 => selections[d1].Name # selections[d2].Name
        /\ \A d \in DOMAIN selections :
               selections[d].Name \notin
                   Names(atSelect.PreviousWeek) \cup Names(atSelect.CurrentWeek)

C1_Witness == AllAssigned /\ atSelect.PreviousWeek # <<>>

\* the pick about to be made draws from a non-empty category all of whose dinners
\* are already in currentWeek or previousWeek
ExhaustedPick ==
    /\ pc = "pick"
    /\ picks < MaxPicks
    /\ LET dinnerSlice == DinnerSlice(dinners, CategoryOf(k, categories)) IN
        /\ Len(dinnerSlice) > 0
        /\ \A i \in DOMAIN dinnerSlice : IsAlreadySelected(state, dinnerSlice[i].Name)

\* C2: a pick from a non-empty category whose dinners are all already selected does
\* not loop for ever: some draw of it gets the run out of the loop (to the
\* NoUnusedDinnerError).
C2_ExhaustedPickFails == ExhaustedPick => ENABLED <<PickDinner>>_vars

\* C3: in every reachable state, in memory and on file, currentWeek holds no name
\* twice and no name of previousWeek.
C3_StateNoRepeat ==
    /\ state # Nil =>
           NoRepeat([i \in DOMAIN state.CurrentWeek |-> state.CurrentWeek[i].Name],
                    [i \in DOMAIN state.PreviousWeek |-> state.PreviousWeek[i].Name])
    /\ file.kind = "json" =>
           NoRepeat([i \in DOMAIN file.text.current_week |-> file.text.current_week[i].name],
                    [i \in DOMAIN file.text.previous_week |-> file.text.previous_week[i].name])

C3_Witness ==
    /\ file.kind = "json"
    /\ file.text.current_week # <<>>
    /\ file.text.previous_week # <<>>

\* C4: the dinners a run is about to save were selected by no earlier successful run
\* of the same calendar week and by no successful run of the week before.
C4_NoRepeatAcrossWeeks ==
    pc = "SaveState" =>
        Names(selections) \cap
            (PickedIn(WeekOf(now)) \cup PickedIn(WeekOf(now) - 1)) = {}

C4_Witness == pc = "SaveState" /\ PickedIn(WeekOf(now) - 1) # {}

\* C5: after CheckNewWeek on a state whose weekStart is not the current week
\* boundary, previousWeek is the old currentWeek, currentWeek is empty and weekStart
\* is the boundary.
C5_Rollover ==
    Checked /\ ~IsWeekBoundary(loaded.WeekStart, now) =>
        /\ state.PreviousWeek = loaded.CurrentWeek
        /\ state.CurrentWeek = <<>>
        /\ IsWeekBoundary(state.WeekStart, now)

C5_Witness ==
    /\ Checked
    /\ ~IsWeekBoundary(loaded.WeekStart, now)
    /\ loaded.CurrentWeek # <<>>
    /\ loaded.PreviousWeek # <<>>
    /\ loaded.PreviousWeek # loaded.CurrentWeek

\* C6: after CheckNewWeek, calling it again at the same time changes nothing; and
\* when the loaded weekStart was the current boundary, the first call changed nothing.
C6_CheckNewWeekIdempotent ==
    Checked =>
        /\ CheckNewWeekOf(state, now) = state
        /\ IsWeekBoundary(loaded.WeekStart, now) => state = loaded

C6_Witness ==
    /\ Checked
    /\ state # loaded
    /\ state.PreviousWeek # <<>>
    /\ CheckNewWeekOf(state, now) = state

\* C7: a run that failed loading the catalog, loading the state or on an empty
\* category left the record as it was; the record changes only once all five days
\* are assigned; a catalog load failure comes before any state is loaded.
C7_FailedRunKeepsRecord ==
    /\ pc = "failed" /\ err \in {"CatalogLoadError", "StateLoadError", "EmptyCategoryError"}
           => file = fileAtStart
    /\ file # fileAtStart =>
           AllAssigned /\ pc \in {"PrintWeeklyMenu", "done", "failed"}
    /\ err = "CatalogLoadError" => state = Nil /\ loaded = Nil

C7_Witness ==
    /\ pc = "failed"
    /\ err = "EmptyCategoryError"
    /\ state.CurrentWeek # <<>>
    /\ file = fileAtStart

\* C8: a pick from a category that is absent from the catalog or empty stops the run
\* with a panic and assigns no dinner; a pick from a non-empty category does not
\* panic, and a dinner it assigns is one of that category's dinners.
C8_PickRandomDinnerOutcome ==
    [][pc = "pick" =>
        LET c == CategoryOf(k, categories)
            catalog == dinnersFile.Dinners
        IN  IF c \notin DOMAIN catalog \/ DinnerSlice(dinners, c) = <<>>
            THEN /\ pc' = "failed"
                 /\ err' = "EmptyCategoryError"
                 /\ selections' = selections
                 /\ state' = state
            ELSE /\ pc' # "failed"
                 /\ selections' # selections =>
                        selections'[Days[k + 1]] \in Range(catalog[c])]_vars

C8_Witness ==
    /\ pc = "failed"
    /\ err = "EmptyCategoryError"
    /\ CategoryOf(k, categories) \notin DOMAIN dinners.Dinners

\* C9: once SelectWeeklyDinners has returned, exactly the five days Sunday to
\* Thursday are assigned, Sunday's dinner comes from "soup", the categories of
\* Monday to Thursday are the four configured ones, each once, and each day's dinner
\* comes from its category.
C9_FiveDaysOneCategoryEach ==
    pc \in {"SaveState", "PrintWeeklyMenu", "done"} =>
        /\ DOMAIN selections = {"Sunday", "Monday", "Tuesday", "Wednesday", "Thursday"}
        /\ selections["Sunday"] \in Range(dinnersFile.Dinners["soup"])
        /\ Len(categories) = 4
        /\ \A c \in {"noodles-rice", "pasta", "bread-y", "Salad"} :
               Cardinality({i \in 1 .. 4 : categories[i] = c}) = 1
        /\ \A i \in 1 .. 4 :
               selections[Days[i + 1]] \in Range(dinnersFile.Dinners[categories[i]])

C9_Witness ==
    /\ pc = "SaveState"
    /\ categories # ShuffledCategories
    /\ categories[1] = "Salad"

\* C10: the state LoadState returns from a record is the state SaveState wrote:
\* the same weekStart, currentWeek and previousWeek.
C10_SaveLoadRoundTrip ==
    pc = "CheckNewWeek" /\ fileAtStart.kind = "json" => state = saved

C10_Witness ==
    /\ pc = "CheckNewWeek"
    /\ fileAtStart.kind = "json"
    /\ state = saved
    /\ state.WeekStart > 9
    /\ state.PreviousWeek # <<>>

\* C12: the previousWeek of the persisted record holds only dinners selected by
\* successful runs of the calendar week right before the record's weekStart.
C12_PreviousWeekIsLastWeek ==
    file.kind = "json" =>
        {file.text.previous_week[i].name : i \in DOMAIN file.text.previous_week}
            \subseteq PickedIn(WeekOf(ParseInt(file.text.week_start)) - 1)

\* how far main() has got
Rank(p) ==
    CASE p = "idle" -> 0
      [] p = "LoadState" -> 1
      [] p = "CheckNewWeek" -> 2
      [] p \in {"pick", "shuffle"} -> 3
      [] p = "SaveState" -> 4
      [] p = "PrintWeeklyMenu" -> 5
      [] p \in {"done", "failed"} -> 6

\* C17: a run goes through load catalog, load state, CheckNewWeek,
\* SelectWeeklyDinners, SaveState, PrintWeeklyMenu in this order and never back;
\* the record changes only in the step that leaves SaveState, after CheckNewWeek and
\* all five selections; the menu is printed only when the record holds the state.
C17_StepOrder ==
    [][/\ pc' # "idle" => Rank(pc') >= Rank(pc)
       /\ pc' = "idle" => pc \in {"idle", "done", "failed"}
       /\ pc' # pc /\ pc' \notin {"idle", "failed"} =>
              \/ Rank(pc') = Rank(pc) + 1
              \/ Rank(pc) = 3 /\ Rank(pc') = 3
       /\ file' # file =>
              /\ pc = "SaveState"
              /\ pc' \in {"PrintWeeklyMenu", "failed"}
              /\ atSelect = CheckNewWeekOf(loaded, now)
              /\ AllAssigned
       /\ pc' = "SaveState" => DOMAIN selections' = Range(Days)
       /\ pc' = "PrintWeeklyMenu" =>
              /\ pc = "SaveState"
              /\ file' = Json(Marshal(state'))
              /\ state' = state]_vars

C17_Witness ==
    /\ pc = "PrintWeeklyMenu"
    /\ fileAtStart.kind = "json"
    /\ file # fileAtStart
    /\ file = Json(Marshal(state))

\* C18: during selection previousWeek and weekStart stay as they were and the
\* selected dinners are appended to currentWeek in the order Sunday to Thursday;
\* a successful run leaves 5 entries more than the week's record held before it,
\* one for every dinner selected by the week's successful runs.
C18_RunAppendsFive ==
    /\ atSelect # Nil =>
        /\ state.PreviousWeek = atSelect.PreviousWeek
        /\ state.WeekStart = atSelect.WeekStart
        /\ state.CurrentWeek =
               atSelect.CurrentWeek \o [i \in 1 .. k |-> selections[Days[i]]]
    /\ pc = "PrintWeeklyMenu" =>
        /\ k = 5
        /\ Len(state.CurrentWeek) =
               5 + (IF /\ fileAtStart.kind = "json"
                       /\ WeekOf(ParseInt(fileAtStart.text.week_start)) = WeekOf(now)
                    THEN Len(fileAtStart.text.current_week)
                    ELSE 0)
    /\ file.kind = "json" =>
        Len(file.text.current_week) =
            Cardinality(PickedIn(WeekOf(ParseInt(file.text.week_start))))

C18_Witness ==
    /\ pc = "PrintWeeklyMenu"
    /\ Len(state.CurrentWeek) = 10
    /\ Len(file.text.current_week) = 10
    /\ now = 6
    /\ state.PreviousWeek = <<>>

----------------------------------------------------------------------------
(* Properties of the program run on any day (CalendarSpec) *)

\* both days lie in the week that starts on the same Sunday
SameWeek(t1, t2) ==
    \E b \in Instants : IsWeekBoundary(b, t1) /\ IsWeekBoundary(b, t2)

\* t2 lies in the week after t1's
AdjacentWeeks(t1, t2) ==
    \E b \in Instants : IsWeekBoundary(b, t1) /\ IsWeekBoundary(b + DaysPerWeek, t2)

\* the week in which the one successful run of the behaviour saved its record
SavedInWeek(w) == w \in DOMAIN picked /\ picked[w] # {}

\* C11: GetCurrentWeekStart returns the most recent Sunday: for two days of the same
\* Sunday-to-Saturday week it returns the same day, for days of adjacent weeks days
\* exactly 7 apart; so do the weekStart a run saved and the weekStart of a later run.
C11_WeekStartByWeek ==
    /\ IsWeekBoundary(GetCurrentWeekStart(now), now)
    /\ \A t \in Instants :
        /\ SameWeek(t, now) => GetCurrentWeekStart(t) = GetCurrentWeekStart(now)
        /\ AdjacentWeeks(t, now) =>
               GetCurrentWeekStart(now) - GetCurrentWeekStart(t) = 7
    /\ Checked /\ loaded = saved =>
        \A w \in Weeks :
            SavedInWeek(w) =>
                state.WeekStart - loaded.WeekStart = 7 * (WeekOf(now) - w)

C11_Witness ==
    /\ Checked
    /\ loaded = saved
    /\ SavedInWeek(WeekOf(now) - 1)
    /\ state.WeekStart = loaded.WeekStart + 7
    /\ now - state.WeekStart = 4

C14_CorruptRecordStopsRun ==
    fileAtStart = Corrupt /\ pc # "idle" =>
        /\ pc \in {"LoadState", "failed"}
        /\ pc = "failed" => err = "StateLoadError"
        /\ state = Nil
        /\ loaded = Nil
        /\ atSelect = Nil
        /\ selections = EmptyMap
        /\ file = Corrupt

C14_Witness ==
    /\ fileAtStart = Corrupt
    /\ pc = "failed"
    /\ err = "StateLoadError"
    /\ state = Nil

----------------------------------------------------------------------------
(* Properties of the WeekState methods called directly (MethodSpec) *)

\* C15: IsAlreadySelected(name) is true exactly when a dinner of currentWeek or of
\* previousWeek has that very name.
C15_IsAlreadySelectedIffNamed ==
    call # Nil =>
        (call.op = "IsAlreadySelected" =>
            (call.ret <=>
                call.arg \in Names(state.CurrentWeek) \cup Names(state.PreviousWeek)))

C15_Witness ==
    /\ call # Nil
    /\ call.op = "IsAlreadySelected"
    /\ call.ret
    /\ call.arg \notin Names(state.CurrentWeek)
    /\ state.CurrentWeek # <<>>
    /\ call.arg = state.PreviousWeek[Len(state.PreviousWeek)].Name

\* C16: AddSelection makes the given dinner the last element of currentWeek, also
\* when currentWeek already holds it, and leaves the earlier elements, previousWeek
\* and weekStart as they were.
C16_AddSelectionAppends ==
    [][(call' # call \/ state' # state) /\ state # Nil /\ call' # Nil =>
        (call'.op = "AddSelection" =>
            LET n == Len(state.CurrentWeek) IN
            /\ Len(state'.CurrentWeek) = n + 1
            /\ state'.CurrentWeek[n + 1] = call'.arg
            /\ \A i \in 1 .. n : state'.CurrentWeek[i] = state.CurrentWeek[i]
            /\ state'.PreviousWeek = state.PreviousWeek
            /\ state'.WeekStart = state.WeekStart)]_vars

C16_Witness ==
    /\ call # Nil
    /\ call.op = "AddSelection"
    /\ Len(state.CurrentWeek) = 3
    /\ state.CurrentWeek[2] = call.arg
    /\ state.CurrentWeek[3] = call.arg
    /\ state.PreviousWeek # <<>>

----------------------------------------------------------------------------
(* Properties of the runs of LiveSpec *)

====
